---- MODULE Spec2Model ----
(***************************************************************************)
(* A model of src/app/page.tsx: the PsdAnalyzer component, its two state   *)
(* slots (imagePreview, psdInfo), the asynchronous handler analyzePsd and  *)
(* the recursive layer walk collectLayerInfo.                              *)
(*                                                                         *)
(* Values.  A JavaScript value that may be undefined is written as a       *)
(* sequence: << >> is undefined (or null, or ''), << v >> is the value v.  *)
(* An object is a record; a key the object does not have is a field the    *)
(* record does not have.  An array is a heap object: a field that holds an *)
(* array holds its address, and the array's contents live in heap.         *)
(***************************************************************************)
EXTENDS Integers, Sequences, FiniteSets, TLC

\* ------------------------------------------------------------------ bounds

\* The source trees of SpecTree have at most MaxNodes nodes.
MaxNodes == 3
\* SpecTree performs at most MaxMutations mutations after the walk.
MaxMutations == 1
\* Spec performs at most MaxRuns file selections (runs of analyzePsd).
MaxRuns == 3
\* Spec performs at most MaxEmptyEvents change-events with no file selected.
MaxEmptyEvents == 1

Runs == 1..MaxRuns

\* ------------------------------------------------- the parser's node shape

\* interface PsdLayerNode.  A Layer of the parser is a leaf: it has no
\* children key.  The optional keys of the interface are present in the
\* "full" nodes and absent in the "bare" ones.  A guides or slices key
\* holds "own" until the parser allocates the array (Alloc).
LayerFull ==
  [type |-> "Layer", name |-> "title", width |-> 100, height |-> 50,
   opacity |-> 80, visible |-> TRUE, top |-> 10, left |-> 20,
   blendMode |-> "multiply", clipped |-> TRUE, text |-> "Hello",
   guides |-> "own", slices |-> "own"]

LayerBare ==
  [type |-> "Layer", name |-> "bg", width |-> 1, height |-> 1,
   opacity |-> 100, visible |-> FALSE, top |-> 0, left |-> 0,
   blendMode |-> "normal", clipped |-> FALSE]

\* A Group that also carries every optional key of the interface.
GroupFull ==
  [type |-> "Group", name |-> "folder", open |-> TRUE, width |-> 7,
   height |-> 8, opacity |-> 60, visible |-> TRUE, top |-> 3, left |-> 4,
   blendMode |-> "screen", clipped |-> FALSE, text |-> "g",
   guides |-> "own", slices |-> "own"]

\* A Group with the required keys only (children?: is optional).
GroupBare == [type |-> "Group", name |-> "set"]

\* A node whose discriminant is neither 'Layer' nor 'Group'.
OtherNode == [type |-> "Artboard", name |-> "board", width |-> 9]

\* The nodes without a children key.
ChildlessNodes == {LayerFull, LayerBare, GroupBare}

ContainerNodes == {GroupFull, GroupBare, OtherNode}

RECURSIVE TreesOfSize(_), ForestsOfSize(_)
\* The trees with exactly n nodes: a node without a children key, or a
\* container over a forest of n-1 nodes.
TreesOfSize(n) ==
  (IF n = 1 THEN ChildlessNodes ELSE {})
  \cup { c @@ [children |-> f] : c \in ContainerNodes, f \in ForestsOfSize(n - 1) }

\* The ordered lists of trees with n nodes in total.
ForestsOfSize(n) ==
  IF n = 0 THEN { << >> }
  ELSE UNION { { <<t>> \o f : t \in TreesOfSize(k), f \in ForestsOfSize(n - k) }
               : k \in 1..n }

RECURSIVE Alloc(_, _)
\* Psd.parse builds the node tree; the guides and slices arrays of the node
\* at path p are the heap objects << p, "guides" >> and << p, "slices" >>.
Alloc(forest, prefix) ==
  [ i \in 1..Len(forest) |->
      LET n == forest[i]
          p == Append(prefix, i)
      IN  [ k \in DOMAIN n |->
              CASE k = "guides"   -> << p, "guides" >>
                [] k = "slices"   -> << p, "slices" >>
                [] k = "children" -> Alloc(n.children, p)
                [] OTHER          -> n[k] ] ]

\* The contents of a freshly parsed guides array and slices array.
FreshArray(kind) ==
  IF kind = "guides"
  THEN << [position |-> 10, orientation |-> "horizontal"],
          [position |-> 20, orientation |-> "vertical"] >>
  ELSE << [name |-> "hero",
           bounds |-> [top |-> 0, left |-> 0, bottom |-> 5, right |-> 5]] >>

\* The children of a node, walked last to first.
ChildrenReversed(node) ==
  IF "children" \in DOMAIN node
  THEN [ i \in 1..Len(node.children) |-> node.children[Len(node.children) + 1 - i] ]
  ELSE << >>

\* node.children?.forEach: the children of a node in their own order, none
\* when the key is absent.
Children(node) == IF "children" \in DOMAIN node THEN node.children ELSE << >>

RECURSIVE Paths(_, _)
\* The paths (child indices from the root list) of the nodes of a forest.
Paths(forest, prefix) ==
  UNION { { Append(prefix, i) }
          \cup Paths(IF "children" \in DOMAIN forest[i] THEN forest[i].children ELSE << >>,
                     Append(prefix, i))
          : i \in 1..Len(forest) }

RECURSIVE NodeAt(_, _)
\* The node at a path.
NodeAt(forest, p) ==
  IF Len(p) = 1 THEN forest[p[1]] ELSE NodeAt(forest[p[1]].children, Tail(p))

\* The addresses of the arrays the parser allocated for a parsed forest.
ArraysOf(children) ==
  UNION { { NodeAt(children, p)[k] : k \in {"guides", "slices"} \cap DOMAIN NodeAt(children, p) }
          : p \in Paths(children, << >>) }

\* ------------------------------------------------------- collectLayerInfo

\* Reading a key of an object: undefined when the object has no such key.
Get(node, k) == IF k \in DOMAIN node THEN << node[k] >> ELSE << >>

\* The object literal pushed for a Layer node.
LeafRecord(node) ==
  [name |-> Get(node, "name"), width |-> Get(node, "width"),
   height |-> Get(node, "height"), opacity |-> Get(node, "opacity"),
   visible |-> Get(node, "visible"), type |-> node.type,
   top |-> Get(node, "top"), left |-> Get(node, "left"),
   blendMode |-> Get(node, "blendMode"), clipped |-> Get(node, "clipped"),
   text |-> Get(node, "text"), guides |-> Get(node, "guides"),
   slices |-> Get(node, "slices")]

\* A Group literal that copies the geometry keys as the Layer literal does.
GroupRecordWithGeometry(node) ==
  [name |-> Get(node, "name"), type |-> node.type, open |-> Get(node, "open"),
   guides |-> Get(node, "guides"), slices |-> Get(node, "slices"),
   width |-> Get(node, "width"), height |-> Get(node, "height")]

\* The object literal pushed for a Group node.
GroupRecord(node) ==
  [name |-> Get(node, "name"), type |-> node.type, open |-> Get(node, "open"),
   guides |-> Get(node, "guides"), slices |-> Get(node, "slices")]

RECURSIVE collectElse(_, _), forEachElse(_, _, _)
\* The walk with a plain else in place of else if (node.type === 'Group').
collectElse(node, layers) ==
  IF node.type = "Layer"
  THEN Append(layers, LeafRecord(node))
  ELSE forEachElse(Children(node), 1, Append(layers, GroupRecord(node)))

forEachElse(nodes, i, layers) ==
  IF i > Len(nodes) THEN layers
  ELSE forEachElse(nodes, i + 1, collectElse(nodes[i], layers))

RECURSIVE collectLayerInfo(_, _), forEach(_, _, _)
\* collectLayerInfo(node), with info.layers passed in and returned.
collectLayerInfo(node, layers) ==
  IF node.type = "Layer"
  THEN Append(layers, LeafRecord(node))
  ELSE IF node.type = "Group"
       THEN forEach(Children(node), 1, Append(layers, GroupRecord(node)))
       ELSE layers

\* nodes.forEach(collectLayerInfo), from index i on.
forEach(nodes, i, layers) ==
  IF i > Len(nodes) THEN layers
  ELSE forEach(nodes, i + 1, collectLayerInfo(nodes[i], layers))

\* ------------------------------------------------------------------ state

VARIABLES
  imagePreview,  \* useState(''): << >> is '', else << the data URL >>
  psdInfo,       \* useState(null): << >> is null, else << the info object >>
  pc,            \* per run of analyzePsd: where the run stands
  file,          \* per run: event.target.files[0]
  psdFile,       \* per run: the document Psd.parse returned
  alerts,        \* per run: the alert() calls the run has made
  started,       \* the runs started so far
  emptyEvents,   \* the change-events with no file selected so far
  heap,          \* the contents of the guides and slices arrays
  trace,         \* history: the selections and the slot writes, in order
  mutations      \* history: the mutations made after the walk, in order

vars ==
  << imagePreview, psdInfo, pc, file, psdFile, alerts, started, emptyEvents,
     heap, trace, mutations >>

\* ------------------------------------------------------------------ files

\* A file the user can select: whether file.arrayBuffer() resolves, whether
\* Psd.parse accepts the bytes, and the document the bytes encode.
FileOf(readable, parseable, compositeOk, w, h, colorMode, layers) ==
  [readable |-> readable, parseable |-> parseable, compositeOk |-> compositeOk,
   width |-> w, height |-> h, colorMode |-> colorMode, layers |-> layers]

\* The files of Spec: one per way a run can end, and two that succeed.
Files ==
  { FileOf(FALSE, FALSE, FALSE, 0, 0, << >>, << >>),
    FileOf(TRUE, FALSE, FALSE, 0, 0, << >>, << >>),
    FileOf(TRUE, TRUE, FALSE, 1, 1, <<3>>, << >>),
    FileOf(TRUE, TRUE, TRUE, 0, 1, <<3>>, << >>),
    FileOf(TRUE, TRUE, TRUE, 2, 1, << >>, << LayerBare >>),
    FileOf(TRUE, TRUE, TRUE, 1, 1, <<3>>,
           << GroupFull @@ [children |-> << LayerFull >>], OtherNode >>),
    FileOf(TRUE, TRUE, TRUE, 100, 50, <<1>>, << >>) }

\* The files of SpecTree: well-formed documents over every bounded forest,
\* with and without a colour mode.
TreeFiles ==
  { FileOf(TRUE, TRUE, TRUE, 1, 1, cm, f) :
      cm \in { <<3>>, << >> },
      f \in UNION { ForestsOfSize(n) : n \in 0..MaxNodes } }

\* Psd.parse(arrayBuffer) in run r: the document, its tree freshly allocated.
Parse(f, r) ==
  [width |-> f.width, height |-> f.height, colorMode |-> f.colorMode,
   compositeOk |-> f.compositeOk, children |-> Alloc(f.layers, <<r>>)]

\* psdFile.colorMode.toString(): the decimal digits of the enum value.
ColorModeToString(cm) ==
  << "0", "1", "2", "3", "4", "5", "6", "7", "8", "9" >>[cm + 1]

\* canvas.toDataURL() of run r: the encoding of a canvas of the document's
\* size holding run r's composite.
DataURL(r, doc) == [run |-> r, width |-> doc.width, height |-> doc.height]

\* The info object of run r, after the walk over psdFile.children.
InfoOf(r, doc) ==
  [run |-> r, width |-> doc.width, height |-> doc.height,
   colorMode |-> ColorModeToString(doc.colorMode[1]),
   layers |-> forEach(doc.children, 1, << >>)]

\* ------------------------------------------------------------------- init

Init ==
  /\ imagePreview = << >>
  /\ psdInfo = << >>
  /\ pc = [r \in Runs |-> "idle"]
  /\ file = [r \in Runs |-> << >>]
  /\ psdFile = [r \in Runs |-> << >>]
  /\ alerts = [r \in Runs |-> 0]
  /\ started = 0
  /\ emptyEvents = 0
  /\ heap = << >>
  /\ trace = << >>
  /\ mutations = << >>

\* SpecTree starts with one file selected and its bytes being read.
InitTree ==
  /\ imagePreview = << >>
  /\ psdInfo = << >>
  /\ pc = [r \in Runs |-> IF r = 1 THEN "reading" ELSE "idle"]
  /\ \E f \in TreeFiles : file = [r \in Runs |-> IF r = 1 THEN << f >> ELSE << >>]
  /\ psdFile = [r \in Runs |-> << >>]
  /\ alerts = [r \in Runs |-> 0]
  /\ started = 1
  /\ emptyEvents = 0
  /\ heap = << >>
  /\ trace = << << "select", 1 >> >>
  /\ mutations = << >>

\* ------------------------------------------------------------- analyzePsd

\* onChange with a file: the run starts and awaits file.arrayBuffer().
Select(f) ==
  /\ started < MaxRuns
  /\ started' = started + 1
  /\ file' = [file EXCEPT ![started + 1] = << f >>]
  /\ pc' = [pc EXCEPT ![started + 1] = "reading"]
  /\ trace' = Append(trace, << "select", started + 1 >>)
  /\ UNCHANGED << imagePreview, psdInfo, psdFile, alerts, emptyEvents, heap, mutations >>

\* onChange with no file: if (!file) return.
SelectNothing ==
  /\ emptyEvents < MaxEmptyEvents
  /\ emptyEvents' = emptyEvents + 1
  /\ UNCHANGED << imagePreview, psdInfo, pc, file, psdFile, alerts, started,
                  heap, trace, mutations >>

\* The catch block: console.error, then one alert; the run ends.
Catch(r) ==
  /\ alerts' = [alerts EXCEPT ![r] = @ + 1]
  /\ pc' = [pc EXCEPT ![r] = "failed"]

\* A catch block that swallows the error without the alert.
ReadFailsSilently(r) ==
  /\ pc[r] = "reading"
  /\ ~ file[r][1].readable
  /\ pc' = [pc EXCEPT ![r] = "failed"]
  /\ UNCHANGED << imagePreview, psdInfo, file, psdFile, alerts, started, emptyEvents,
                  heap, trace, mutations >>

\* await file.arrayBuffer() rejects.
ReadFails(r) ==
  /\ pc[r] = "reading"
  /\ ~ file[r][1].readable
  /\ Catch(r)
  /\ UNCHANGED << imagePreview, psdInfo, file, psdFile, started, emptyEvents,
                  heap, trace, mutations >>

\* Psd.parse throws.
ParseFails(r) ==
  /\ pc[r] = "reading"
  /\ file[r][1].readable
  /\ ~ file[r][1].parseable
  /\ Catch(r)
  /\ UNCHANGED << imagePreview, psdInfo, file, psdFile, started, emptyEvents,
                  heap, trace, mutations >>

\* Psd.parse returns; the canvas is made; the run awaits psdFile.composite().
ParseOk(r) ==
  /\ pc[r] = "reading"
  /\ file[r][1].readable
  /\ file[r][1].parseable
  /\ LET doc == Parse(file[r][1], r)
     IN  /\ psdFile' = [psdFile EXCEPT ![r] = << doc >>]
         /\ heap' = [ a \in ArraysOf(doc.children) |-> FreshArray(a[2]) ] @@ heap
  /\ pc' = [pc EXCEPT ![r] = "compositing"]
  /\ UNCHANGED << imagePreview, psdInfo, file, alerts, started, emptyEvents,
                  trace, mutations >>

\* await psdFile.composite() rejects.
CompositeFails(r) ==
  /\ pc[r] = "compositing"
  /\ ~ psdFile[r][1].compositeOk
  /\ Catch(r)
  /\ UNCHANGED << imagePreview, psdInfo, file, psdFile, started, emptyEvents,
                  heap, trace, mutations >>

\* new ImageData(buffer, width, height) throws on a zero width or height.
DrawFails(r) ==
  /\ pc[r] = "compositing"
  /\ psdFile[r][1].compositeOk
  /\ (psdFile[r][1].width = 0 \/ psdFile[r][1].height = 0)
  /\ Catch(r)
  /\ UNCHANGED << imagePreview, psdInfo, file, psdFile, started, emptyEvents,
                  heap, trace, mutations >>

\* setImagePreview has run when psdFile.colorMode.toString() throws on an
\* undefined colour mode.
CollectFails(r) ==
  /\ pc[r] = "compositing"
  /\ psdFile[r][1].compositeOk
  /\ psdFile[r][1].width # 0 /\ psdFile[r][1].height # 0
  /\ psdFile[r][1].colorMode = << >>
  /\ imagePreview' = << DataURL(r, psdFile[r][1]) >>
  /\ trace' = Append(trace, << "preview", r >>)
  /\ Catch(r)
  /\ UNCHANGED << psdInfo, file, psdFile, started, emptyEvents, heap, mutations >>

\* A run that writes nothing once a later file has been selected.
FinishUnlessSuperseded(r) ==
  /\ pc[r] = "compositing"
  /\ psdFile[r][1].compositeOk
  /\ psdFile[r][1].width # 0 /\ psdFile[r][1].height # 0
  /\ psdFile[r][1].colorMode # << >>
  /\ IF started > r
     THEN UNCHANGED << imagePreview, psdInfo, trace >>
     ELSE /\ imagePreview' = << DataURL(r, psdFile[r][1]) >>
          /\ psdInfo' = << InfoOf(r, psdFile[r][1]) >>
          /\ trace' = trace \o << << "preview", r >>, << "info", r >> >>
  /\ pc' = [pc EXCEPT ![r] = "done"]
  /\ UNCHANGED << file, psdFile, alerts, started, emptyEvents, heap, mutations >>

\* A run that calls setPsdInfo before setImagePreview.
FinishInfoFirst(r) ==
  /\ pc[r] = "compositing"
  /\ psdFile[r][1].compositeOk
  /\ psdFile[r][1].width # 0 /\ psdFile[r][1].height # 0
  /\ psdFile[r][1].colorMode # << >>
  /\ imagePreview' = << DataURL(r, psdFile[r][1]) >>
  /\ psdInfo' = << InfoOf(r, psdFile[r][1]) >>
  /\ trace' = trace \o << << "info", r >>, << "preview", r >> >>
  /\ pc' = [pc EXCEPT ![r] = "done"]
  /\ UNCHANGED << file, psdFile, alerts, started, emptyEvents, heap, mutations >>

\* The composite resolves: draw, setImagePreview, build info, walk the
\* tree, setPsdInfo, in one uninterrupted step (no await stands between
\* lines 88 and 135, and the component renders only once the step is over).
Finish(r) ==
  /\ pc[r] = "compositing"
  /\ psdFile[r][1].compositeOk
  /\ psdFile[r][1].width # 0 /\ psdFile[r][1].height # 0
  /\ psdFile[r][1].colorMode # << >>
  /\ imagePreview' = << DataURL(r, psdFile[r][1]) >>
  /\ psdInfo' = << InfoOf(r, psdFile[r][1]) >>
  /\ trace' = trace \o << << "preview", r >>, << "info", r >> >>
  /\ pc' = [pc EXCEPT ![r] = "done"]
  /\ UNCHANGED << file, psdFile, alerts, started, emptyEvents, heap, mutations >>

Next ==
  \/ \E f \in Files : Select(f)
  \/ SelectNothing
  \/ \E r \in Runs : ReadFails(r)
  \/ \E r \in Runs : ParseFails(r)
  \/ \E r \in Runs : ParseOk(r)
  \/ \E r \in Runs : CompositeFails(r)
  \/ \E r \in Runs : DrawFails(r)
  \/ \E r \in Runs : CollectFails(r)
  \/ \E r \in Runs : Finish(r)

Spec == Init /\ [][Next]_vars

\* ------------------------------------------------ mutations after the walk

RECURSIVE RenameAt(_, _, _)
\* The forest with the name of the node at path p assigned: node.name = v.
RenameAt(forest, p, v) ==
  [ i \in 1..Len(forest) |->
      IF i # p[1] THEN forest[i]
      ELSE IF Len(p) = 1
           THEN [forest[i] EXCEPT !.name = v]
           ELSE [forest[i] EXCEPT !.children = RenameAt(@, Tail(p), v)] ]

\* The walk of run 1 has ended well and a mutation is still allowed.
CanMutate == pc[1] = "done" /\ Len(mutations) < MaxMutations

\* A scalar of a source node is assigned.
MutateSourceField(p) ==
  /\ CanMutate
  /\ psdFile' = [psdFile EXCEPT ![1] =
                   << [@[1] EXCEPT !.children = RenameAt(@, p, "renamed")] >>]
  /\ mutations' = Append(mutations, "source")
  /\ UNCHANGED << imagePreview, psdInfo, pc, file, alerts, started, emptyEvents,
                  heap, trace >>

\* An element is removed from the guides or slices array of a source node:
\* node[k].shift().
MutateSourceArray(p, k) ==
  /\ CanMutate
  /\ k \in DOMAIN NodeAt(psdFile[1][1].children, p)
  /\ heap[NodeAt(psdFile[1][1].children, p)[k]] # << >>
  /\ heap' = [heap EXCEPT ![NodeAt(psdFile[1][1].children, p)[k]] = Tail(@)]
  /\ mutations' = Append(mutations, "source")
  /\ UNCHANGED << imagePreview, psdInfo, pc, file, psdFile, alerts, started,
                  emptyEvents, trace >>

\* A scalar of a display record is assigned.
MutateRecordField(i) ==
  /\ CanMutate
  /\ psdInfo' = << [psdInfo[1] EXCEPT !.layers[i].name = << "edited" >>] >>
  /\ mutations' = Append(mutations, "record")
  /\ UNCHANGED << imagePreview, pc, file, psdFile, alerts, started, emptyEvents,
                  heap, trace >>

\* An element is removed from the guides or slices array of a display
\* record: record[k].shift().
MutateRecordArray(i, k) ==
  /\ CanMutate
  /\ psdInfo[1].layers[i][k] # << >>
  /\ heap[psdInfo[1].layers[i][k][1]] # << >>
  /\ heap' = [heap EXCEPT ![psdInfo[1].layers[i][k][1]] = Tail(@)]
  /\ mutations' = Append(mutations, "record")
  /\ UNCHANGED << imagePreview, psdInfo, pc, file, psdFile, alerts, started,
                  emptyEvents, trace >>

\* The paths of the source nodes, once the document is parsed.
SourcePaths ==
  IF psdFile[1] = << >> THEN {} ELSE Paths(psdFile[1][1].children, << >>)

\* The indices of the display records, once psdInfo is set.
RecordIndices ==
  IF psdInfo = << >> THEN {} ELSE 1..Len(psdInfo[1].layers)

NextTree ==
  \/ ParseOk(1)
  \/ CollectFails(1)
  \/ Finish(1)
  \/ \E p \in SourcePaths : MutateSourceField(p)
  \/ \E p \in SourcePaths, k \in {"guides", "slices"} : MutateSourceArray(p, k)
  \/ \E i \in RecordIndices : MutateRecordField(i)
  \/ \E i \in RecordIndices, k \in {"guides", "slices"} : MutateRecordArray(i, k)

SpecTree == InitTree /\ [][NextTree]_vars

\* ------------------------------------------------------------ the display

\* width={psdInfo?.width || 0} and height={psdInfo?.height || 0}.
RenderedWidth == IF psdInfo = << >> THEN 0 ELSE psdInfo[1].width

RenderedHeight == IF psdInfo = << >> THEN 0 ELSE psdInfo[1].height

\* ------------------------------------------- what the claims speak about

\* Path p is a proper ancestor of q, or branches off to the left of q: the
\* node at p comes before the node at q in a pre-order traversal.
Before(p, q) ==
  \/ Len(p) < Len(q) /\ \A j \in 1..Len(p) : p[j] = q[j]
  \/ \E k \in 1..Len(p) :
       /\ k <= Len(q)
       /\ \A j \in 1..(k - 1) : p[j] = q[j]
       /\ p[k] < q[k]

\* The pre-order position of the node at path p.
Rank(forest, p) == 1 + Cardinality({ q \in Paths(forest, << >>) : Before(q, p) })

KnownTypes == {"Layer", "Group"}

\* Every node of the forest is a Layer or a Group.
AllKnown(forest) ==
  \A p \in Paths(forest, << >>) : NodeAt(forest, p).type \in KnownTypes

RECURSIVE Without(_, _)
\* The forest with the nodes of unknown type and their subtrees removed,
\* from index i on.
Without(forest, i) ==
  IF i > Len(forest) THEN << >>
  ELSE LET n == forest[i]
       IN  (IF n.type \notin KnownTypes THEN << >>
            ELSE IF "children" \in DOMAIN n
                 THEN << [n EXCEPT !.children = Without(@, 1)] >>
                 ELSE << n >>)
           \o Without(forest, i + 1)

LeafKeys ==
  {"name", "width", "height", "top", "left", "opacity", "visible", "blendMode",
   "clipped", "text", "guides", "slices", "type"}

GroupKeys == {"name", "type", "open", "guides", "slices"}

\* Run 1 has ended well and nothing has been mutated since.
Walked == pc[1] = "done" /\ mutations = << >>

\* The source tree and the layer list of run 1.
SourceTree == psdFile[1][1].children

Layers == psdInfo[1].layers

\* The entries of the trace that are slot writes.
Writes == SelectSeq(trace, LAMBDA e : e[1] # "select")

\* The position of an event in the trace, 0 when it has not happened.
At(e) ==
  IF \E i \in 1..Len(trace) : trace[i] = e
  THEN CHOOSE i \in 1..Len(trace) : trace[i] = e
  ELSE 0

\* Run r2 was selected after run r1 and before run r1 wrote a slot: for a
\* run r1 that ends by writing, r2 was selected while r1 was in flight.
Overlap(r1, r2) ==
  /\ r1 < r2
  /\ At(<< "select", r2 >>) # 0
  /\ At(<< "preview", r1 >>) # 0 => At(<< "select", r2 >>) < At(<< "preview", r1 >>)

\* Run r has written both slots, the preview first and the info right after.
WroteBoth(r) ==
  \E i \in 1..(Len(Writes) - 1) :
    Writes[i] = << "preview", r >> /\ Writes[i + 1] = << "info", r >>

\* The run whose write is the last one so far.
LastWriter == Writes[Len(Writes)][2]

\* The layer records and the source nodes with every array address replaced
\* by the array's contents: what a reader of the object sees.
DeepRecords ==
  IF psdInfo = << >> THEN << >>
  ELSE [ i \in 1..Len(Layers) |->
         [ k \in DOMAIN Layers[i] |->
             IF k \in {"guides", "slices"} /\ Layers[i][k] # << >>
             THEN << heap[Layers[i][k][1]] >>
             ELSE Layers[i][k] ] ]

RECURSIVE DeepForest(_)
DeepForest(forest) ==
  [ i \in 1..Len(forest) |->
      [ k \in DOMAIN forest[i] |->
          CASE k \in {"guides", "slices"} -> heap[forest[i][k]]
            [] k = "children" -> DeepForest(forest[i].children)
            [] OTHER -> forest[i][k] ] ]

DeepSource == IF psdFile[1] = << >> THEN << >> ELSE DeepForest(SourceTree)

\* ----------------------------------------------------------------- claims

\* C1: over a tree of Layer and Group nodes the layer list holds exactly one
\* record per node, in pre-order: the record of the node at path p stands at
\* p's pre-order position, so a Group's record precedes its descendants',
\* which follow in child order and precede every later sibling's.
C1_PreOrder ==
  (Walked /\ AllKnown(SourceTree)) =>
    /\ Len(Layers) = Cardinality(Paths(SourceTree, << >>))
    /\ \A p \in Paths(SourceTree, << >>) :
         LET rec == Layers[Rank(SourceTree, p)]
             node == NodeAt(SourceTree, p)
         IN  /\ rec.type = node.type
             /\ rec.name = << node.name >>
             /\ rec.guides = Get(node, "guides")

\* C1 witness: a Group with a child, followed by a sibling, has been walked.
C1_Witness ==
  /\ Walked
  /\ AllKnown(SourceTree)
  /\ Paths(SourceTree, << >>) = { <<1>>, <<1, 1>>, <<2>> }
  /\ Len(Layers) = 3
  /\ Layers[1].type = "Group"
  /\ Layers[3].guides = << << <<1, 2>>, "guides" >> >>

\* C2 (as claimed): the step in which a run fails to parse its file leaves
\* the preview slot empty and the info slot null.
C2_ClearedOnParseFailure ==
  [][ \A r \in Runs :
        ( /\ pc[r] = "reading"
          /\ pc'[r] = "failed"
          /\ file[r][1].readable
          /\ ~ file[r][1].parseable )
        => (imagePreview' = << >> /\ psdInfo' = << >>) ]_vars

\* C3: when two overlapping runs have both ended well, neither was
\* cancelled (each has written both slots), and if the last write so far is
\* one of theirs both slots hold that run's result.
C3_LastWriteWins ==
  \A r1, r2 \in Runs :
    (Overlap(r1, r2) /\ pc[r1] = "done" /\ pc[r2] = "done") =>
      /\ WroteBoth(r1)
      /\ WroteBoth(r2)
      /\ LastWriter \in {r1, r2} =>
           (imagePreview[1].run = LastWriter /\ psdInfo[1].run = LastWriter)

\* C3 witness: the file selected first wrote last and is the one displayed.
C3_Witness ==
  /\ Overlap(1, 2)
  /\ pc[1] = "done" /\ pc[2] = "done"
  /\ LastWriter = 1
  /\ imagePreview[1].run = 1 /\ psdInfo[1].run = 1
  /\ file[1] # file[2]

\* C4 (as claimed): the display is never half-updated: both slots are empty
\* or both hold the result of one and the same run.
C4_NeverHalfUpdated ==
  \/ imagePreview = << >> /\ psdInfo = << >>
  \/ /\ imagePreview # << >>
     /\ psdInfo # << >>
     /\ imagePreview[1].run = psdInfo[1].run

\* C5 (as claimed): a rendered preview image is given the width and height
\* of the document it was composited from.
C5_RenderedSize ==
  imagePreview # << >> =>
    /\ RenderedWidth = psdFile[imagePreview[1].run][1].width
    /\ RenderedHeight = psdFile[imagePreview[1].run][1].height

\* C6 (as claimed): a mutation of a source node changes nothing a reader of
\* the display records sees, and a mutation of a display record changes
\* nothing a reader of the source nodes sees.
C6_Independent ==
  [][ mutations' # mutations =>
        IF mutations'[Len(mutations')] = "source"
        THEN DeepRecords' = DeepRecords
        ELSE DeepSource' = DeepSource ]_vars

\* C7: a run that has failed has raised exactly one alert and a run that
\* has not failed has raised none; a failed run stays failed and raises no
\* further alert (it is not retried).
C7_OneAlertPerFailure ==
  /\ [](\A r \in Runs : alerts[r] = IF pc[r] = "failed" THEN 1 ELSE 0)
  /\ [][ \A r \in Runs :
           pc[r] = "failed" => (pc'[r] = "failed" /\ alerts'[r] = alerts[r]) ]_vars

\* C7 witness: after a run failed, a later selection ran afresh and ended well.
C7_Witness ==
  \E r1, r2 \in Runs :
    /\ r1 < r2
    /\ pc[r1] = "failed" /\ alerts[r1] = 1
    /\ psdFile[r1] = << >>
    /\ pc[r2] = "done" /\ alerts[r2] = 0
    /\ file[r2] # file[r1]

\* C8: nodes of unknown type are skipped with their subtrees: the layer list
\* is what the walk of the tree without them gives, record by record in
\* pre-order, and the walk fails no run (a run fails at the walk step only
\* for want of a colour mode, and a run that ended well raised no alert).
C8_SkipsUnknown ==
  /\ Walked =>
       LET kept == Without(SourceTree, 1)
       IN  /\ alerts[1] = 0
           /\ Len(Layers) = Cardinality(Paths(kept, << >>))
           /\ \A p \in Paths(kept, << >>) :
                Layers[Rank(kept, p)] =
                  IF NodeAt(kept, p).type = "Layer"
                  THEN LeafRecord(NodeAt(kept, p))
                  ELSE GroupRecord(NodeAt(kept, p))
  /\ pc[1] = "failed" => file[1][1].colorMode = << >>

\* C8 witness: a node of unknown type with a child, between two known nodes,
\* has been walked.
C8_Witness ==
  /\ Walked
  /\ Len(SourceTree) = 2
  /\ SourceTree[1].type = "Artboard"
  /\ Children(SourceTree[1]) # << >>
  /\ Len(Layers) = 1

\* C9: a Leaf record has exactly the Leaf keys, a Group record exactly
\* name, type, open, guides and slices, and every key holds the source
\* node's value for it.
C9_Projection ==
  Walked =>
    LET kept == Without(SourceTree, 1)
    IN  \A p \in Paths(kept, << >>) :
          LET rec == Layers[Rank(kept, p)]
              node == NodeAt(kept, p)
              keys == IF node.type = "Layer" THEN LeafKeys ELSE GroupKeys
          IN  /\ DOMAIN rec = keys
              /\ rec.type = node.type
              /\ \A k \in keys \ {"type"} : rec[k] = Get(node, k)

\* C9 witness: a Group that has width, height and text, and a Layer with
\* text, guides and slices, have been walked.
C9_Witness ==
  /\ Walked
  /\ Len(Layers) = 2
  /\ "width" \in DOMAIN SourceTree[1]
  /\ SourceTree[1].type = "Group"
  /\ Layers[2].type = "Layer"
  /\ Layers[2].text = << "Hello" >>

\* C10: a run that ended well wrote the preview slot and then the info slot
\* with no write of another run between them, and a change-event with no
\* file selected writes no slot and raises no alert.
C10_WritesTogether ==
  /\ [](\A r \in Runs :
          pc[r] = "done" =>
            /\ WroteBoth(r)
            /\ Cardinality({ i \in 1..Len(Writes) : Writes[i][2] = r }) = 2)
  /\ [][ emptyEvents' # emptyEvents =>
           UNCHANGED << imagePreview, psdInfo, alerts, trace, pc >> ]_vars

\* C10 witness: two overlapping runs have both ended well, and a change-event
\* with no file selected has happened.
C10_Witness ==
  /\ Overlap(1, 2)
  /\ pc[1] = "done" /\ pc[2] = "done"
  /\ emptyEvents = 1
  /\ Len(Writes) = 4

====
